---- MODULE Spec2Model ----
(***************************************************************************)
(* tokio-cron-scheduler: due-ness evaluation of a job (JobLocked::tick,    *)
(* src/src/job.rs) and the add-with-confirmation protocol of the           *)
(* registration coordinator (JobCreator, src/src/job/creator.rs).          *)
(***************************************************************************)
EXTENDS Integers, Sequences, FiniteSets, TLC

(* ------------------------------ bounds --------------------------------- *)
\* instants are 0 .. MaxTime
MaxTime == 15
\* schedules are the patterns "t % p \in S" for p \in 1 .. MaxPeriod
MaxPeriod == 5
\* number of tick() calls in one behaviour
MaxEvals == 4
\* width of Job::count in bits (u32 in the source, scaled down)
CounterBits == 2
\* number of add() calls, each for a job of its own
NumCalls == 2
\* capacity of the two broadcast channels of the Context
Capacity == 1

(* --------------------------- Option<T> --------------------------------- *)
None == <<>>
Some(x) == <<x>>
Unwrap(o) == o[1]

(* ------------------------------ Job ------------------------------------ *)
VARIABLES
  schedule,    \* Job::schedule, the set of its occurrences in 0 .. MaxTime
  last_tick,   \* Job::last_tick : Option<DateTime<Utc>>
  count,       \* Job::count
  job_id,      \* Job::job_id
  poisoned,    \* the RwLock around the Job is poisoned
  clock,       \* the value of Utc::now() in the latest evaluation
  evals,       \* number of tick() calls so far
  ret,         \* what the latest tick() returned (None before the first)
  prev_tick,   \* last_tick as the latest tick() found it
  locked,      \* the latest tick() acquired the lock
  fired,       \* the candidates for which tick() returned true, in order
  passed,      \* number of occurrences strictly after the priming tick()
               \* and strictly before the latest one
  dense,       \* every pair of consecutive evaluations so far is spaced
               \* strictly increasing and closer than the minimum gap
  on_boundary  \* some evaluation after the priming one fell exactly on an
               \* occurrence of the schedule

jobVars == <<schedule, last_tick, count, job_id, poisoned, clock, evals, ret,
             prev_tick, locked, fired, passed, dense, on_boundary>>

Time == 0 .. MaxTime
\* Uuid::new_v4(): the identity is fresh, its value plays no part in tick()
JobIds == {1}

Pattern(p, S) == {t \in Time : (t % p) \in S}
Schedules == UNION {{Pattern(p, S) : S \in SUBSET (0 .. p - 1)} : p \in 1 .. MaxPeriod}

Min(S) == CHOOSE x \in S : \A y \in S : x <= y

\* u32::MAX for a counter of CounterBits bits
CounterMax == 2 ^ CounterBits - 1

AfterInclusive(sch, t) == {o \in sch : o >= t}

\* schedule.after(&t): the occurrences strictly after t, ascending
After(sch, t) == {o \in sch : o > t}

\* .take(1): the first element of the ascending sequence, if any
TakeOne(occ) == IF occ = {} THEN None ELSE Some(Min(occ))

\* Ord::cmp
Cmp(a, b) == IF a < b THEN "Less" ELSE IF a = b THEN "Equal" ELSE "Greater"

DueAtInclusive(now, last, na) ==
  IF Cmp(now, na) # "Less" THEN Cmp(last, na) = "Less" ELSE FALSE

\* the closure of .map(|na| ...): lines 56-67
DueAt(now, last, na) ==
  LET now_to_next == Cmp(now, na)
      last_to_next == Cmp(last, na)
  IN  IF now_to_next = "Greater" THEN last_to_next = "Less" ELSE FALSE

\* lines 53-70: the due-ness of an evaluation at now after one at last
Due(sch, last, now) ==
  LET na == TakeOne(After(sch, last))
  IN  IF na = None THEN FALSE ELSE DueAt(now, last, Unwrap(na))

NextCountSkipped(c) == c

NextCountInclusive(c) == IF c + 1 <= CounterMax THEN c + 1 ELSE 0

\* lines 48-52: the count after one more evaluation
NextCount(c) == IF c + 1 < CounterMax THEN c + 1 ELSE 0

NextLastTickStale(last, now) == IF last = None THEN Some(now) ELSE last

NextLastTickLate(last, now) == IF last = None THEN None ELSE Some(now)

\* lines 43 and 47: s.last_tick = Some(now)
NextLastTick(last, now) == Some(now)

\* the minimum gap between two occurrences of a schedule
MinGap(sch) ==
  IF Cardinality(sch) < 2 THEN MaxTime + 1
  ELSE Min({b - a : <<a, b>> \in {w \in sch \X sch : w[1] < w[2]}})

\* JobLocked::new with a schedule that parses, lines 25-34
NewJob(sch, id) ==
  /\ schedule = sch
  /\ last_tick = None
  /\ count = 0
  /\ job_id = id
  /\ poisoned = FALSE
  /\ clock = 0
  /\ evals = 0
  /\ ret = None
  /\ prev_tick = None
  /\ locked = FALSE
  /\ fired = <<>>
  /\ passed = 0
  /\ dense = TRUE
  /\ on_boundary = FALSE

JobInit == \E sch \in Schedules, id \in JobIds : NewJob(sch, id)

TickPoisonedCounts ==
  /\ poisoned
  /\ evals' = evals + 1
  /\ ret' = Some(FALSE)
  /\ locked' = FALSE
  /\ prev_tick' = last_tick
  /\ count' = NextCount(count)
  /\ UNCHANGED <<schedule, last_tick, job_id, poisoned, clock, fired, passed,
                 dense, on_boundary>>

\* tick() when self.0.write() fails: .unwrap_or(false), line 72; the value
\* of now it read is dropped unused
TickPoisoned ==
  /\ poisoned
  /\ evals' = evals + 1
  /\ ret' = Some(FALSE)
  /\ locked' = FALSE
  /\ prev_tick' = last_tick
  /\ UNCHANGED <<schedule, last_tick, count, job_id, poisoned, clock, fired,
                 passed, dense, on_boundary>>

TickFirstRenews(now) ==
  /\ ~poisoned
  /\ last_tick = None
  /\ clock' = now
  /\ evals' = evals + 1
  /\ last_tick' = NextLastTick(last_tick, now)
  /\ ret' = Some(FALSE)
  /\ locked' = TRUE
  /\ prev_tick' = last_tick
  /\ job_id' = job_id + 1
  /\ UNCHANGED <<schedule, count, poisoned, fired, passed, dense, on_boundary>>

\* tick() on a job never evaluated before: lines 42-45
TickFirst(now) ==
  /\ ~poisoned
  /\ last_tick = None
  /\ clock' = now
  /\ evals' = evals + 1
  /\ last_tick' = NextLastTick(last_tick, now)
  /\ ret' = Some(FALSE)
  /\ locked' = TRUE
  /\ prev_tick' = last_tick
  /\ UNCHANGED <<schedule, count, job_id, poisoned, fired, passed, dense,
                 on_boundary>>

\* the occurrences that lie strictly before now and not before last, the
\* one at last itself left out when last is the priming instant
Between(sch, primed, last, now) ==
  {o \in sch : o < now /\ IF primed THEN last < o ELSE last <= o}

\* tick() on a job evaluated before: lines 46-70
TickNext(now) ==
  /\ ~poisoned
  /\ last_tick # None
  /\ LET last == Unwrap(last_tick)
         due == Due(schedule, last, now)
     IN  /\ clock' = now
         /\ evals' = evals + 1
         /\ last_tick' = NextLastTick(last_tick, now)
         /\ count' = NextCount(count)
         /\ ret' = Some(due)
         /\ locked' = TRUE
         /\ prev_tick' = last_tick
         /\ fired' = IF due THEN Append(fired, Min(After(schedule, last))) ELSE fired
         /\ dense' = (dense /\ last < now /\ now - last < MinGap(schedule))
         /\ on_boundary' = (on_boundary \/ now \in schedule)
         /\ passed' = passed + Cardinality(Between(schedule, prev_tick = None, last, now))
  /\ UNCHANGED <<schedule, job_id, poisoned>>

\* JobLocked::tick: let now = Utc::now(), then one of the three paths
Tick ==
  /\ evals < MaxEvals
  /\ \/ TickPoisoned
     \/ \E now \in clock .. MaxTime : TickFirst(now) \/ TickNext(now)

\* a holder of the write guard panics: the lock is poisoned from then on
PoisonLock ==
  /\ ~poisoned
  /\ poisoned' = TRUE
  /\ UNCHANGED <<schedule, last_tick, count, job_id, clock, evals, ret,
                 prev_tick, locked, fired, passed, dense, on_boundary>>

(* ------------------- registration coordinator ------------------------ *)
VARIABLES
  ctx_alive,    \* the Context, owner of job_create_tx and job_created_tx, lives
  create_log,   \* every creation request sent on job_create_tx, in order
  created_log,  \* every confirmation job_created_tx took, in order
  lst_pc,       \* listener: "recv", "save" or "exited"
  lst_pos,      \* listener: number of creation requests its rx is past
  lst_cur,      \* listener: the request it is persisting (data, uuid)
  stored,       \* Storage: the identities add_or_update accepted
  caller,       \* add(): "idle", "blocked" (in done_rx.recv()) or "returned"
  outer,        \* task of line 75: "none", "start", "waiting" or "done"
  inner,        \* task of line 113: "none", "ready" or "done"
  cursor,       \* add(): number of confirmations its rx is past
  done,         \* the messages in the mpsc channel (done_tx, done_rx)
  result,       \* what add() returned (None while it has not)
  data_id,      \* data.id of the job's metadata, once job_data() gave it
  produced,     \* the outcome the listener broadcast for each identity
  seen,         \* the confirmations each add() received, in order
  sent          \* the confirmations the listener passed to tx_created.send

regVars == <<ctx_alive, create_log, created_log, lst_pc, lst_pos, lst_cur,
             stored, caller, outer, inner, cursor, done, result, data_id,
             produced, seen, sent>>

Calls == 1 .. NumCalls

\* job.guid(): every call is for a job of its own
Guid(c) == c

\* Result<Uuid, JobSchedulerError>, the value add() returns
OkId(u) == [ok |-> TRUE, id |-> Some(u), err |-> "none"]
ErrOf(e) == [ok |-> FALSE, id |-> None, err |-> e]

\* Result<Uuid, (JobSchedulerError, Option<Uuid>)>, a confirmation
Created(u) == [ok |-> TRUE, id |-> Some(u), err |-> "none"]

FailedAnonymous(e, oid) == [ok |-> FALSE, id |-> None, err |-> e]

Failed(e, oid) == [ok |-> FALSE, id |-> oid, err |-> e]

\* tokio broadcast Receiver::recv on a receiver that is past pos messages of
\* log: the oldest messages are overwritten beyond the capacity
Recv(log, pos, closed) ==
  IF pos < Len(log) - Capacity THEN [kind |-> "Lagged"]
  ELSE IF pos < Len(log) THEN [kind |-> "Value", val |-> log[pos + 1]]
  ELSE IF closed THEN [kind |-> "Closed"]
  ELSE [kind |-> "Pending"]

\* the listener's rx is the only receiver of job_create_tx (line 59)
CreateReceivers == IF lst_pc = "exited" THEN 0 ELSE 1

\* the receivers of job_created_tx: line 71, until the task of line 75 ends
Subscribed(c) == caller[c] # "idle" /\ outer[c] # "done"
CreatedReceivers == Cardinality({c \in Calls : Subscribed(c)})

\* a channel is closed once every Sender of it is dropped
CreateClosed ==
  ~ctx_alive /\ \A c \in Calls : outer[c] # "start" /\ inner[c] # "ready"
CreatedClosed == ~ctx_alive /\ lst_pc = "exited"

SendLost(log, receivers, val) == log

\* Sender::send: the value is kept only if some receiver is subscribed
Send(log, receivers, val) == IF receivers = 0 THEN log ELSE Append(log, val)

RegInit ==
  /\ ctx_alive = TRUE
  /\ create_log = <<>>
  /\ created_log = <<>>
  /\ lst_pc = "recv"
  /\ lst_pos = 0
  /\ lst_cur = None
  /\ stored = {}
  /\ caller = [c \in Calls |-> "idle"]
  /\ outer = [c \in Calls |-> "none"]
  /\ inner = [c \in Calls |-> "none"]
  /\ cursor = [c \in Calls |-> 0]
  /\ done = [c \in Calls |-> <<>>]
  /\ result = [c \in Calls |-> None]
  /\ data_id = [c \in Calls |-> None]
  /\ produced = [u \in Calls |-> None]
  /\ seen = [c \in Calls |-> <<>>]
  /\ sent = <<>>

\* listener, lines 23-37: receive a request and extract its identity
ListenerRecv ==
  /\ lst_pc = "recv"
  /\ LET val == Recv(create_log, lst_pos, CreateClosed)
     IN  /\ val.kind # "Pending"
         /\ IF val.kind # "Value"
            THEN /\ lst_pc' = "exited"
                 /\ UNCHANGED <<lst_pos, lst_cur, created_log, sent>>
            ELSE /\ lst_pos' = lst_pos + 1
                 /\ IF val.val.id = None
                    THEN /\ created_log' = Send(created_log, CreatedReceivers,
                                                Failed("CantAdd", None))
                         /\ sent' = Append(sent, Failed("CantAdd", None))
                         /\ UNCHANGED <<lst_pc, lst_cur>>
                    ELSE /\ lst_pc' = "save"
                         /\ lst_cur' = Some(val.val)
                         /\ UNCHANGED <<created_log, sent>>
  /\ UNCHANGED <<ctx_alive, create_log, stored, caller, outer, inner, cursor,
                 done, result, data_id, produced, seen>>

ListenerSaveSilent ==
  /\ lst_pc = "save"
  /\ LET uuid == Unwrap(Unwrap(lst_cur).id)
     IN  \E saved \in {"Ok", "StorageErr"} :
           LET conf == IF saved = "Ok" THEN Created(uuid)
                       ELSE Failed(saved, Some(uuid))
           IN  /\ stored' = IF saved = "Ok" THEN stored \cup {uuid} ELSE stored
               /\ created_log' = IF saved = "Ok"
                                 THEN Send(created_log, CreatedReceivers, conf)
                                 ELSE created_log
               /\ sent' = IF saved = "Ok" THEN Append(sent, conf) ELSE sent
               /\ produced' = [produced EXCEPT ![uuid] = Some(saved)]
  /\ lst_pc' = "recv"
  /\ lst_cur' = None
  /\ UNCHANGED <<ctx_alive, create_log, lst_pos, caller, outer, inner, cursor,
                 done, result, data_id, seen>>

ListenerSaveEager ==
  /\ lst_pc = "save"
  /\ LET uuid == Unwrap(Unwrap(lst_cur).id)
     IN  \E saved \in {"Ok", "StorageErr"} :
           LET conf == Created(uuid)
           IN  /\ stored' = IF saved = "Ok" THEN stored \cup {uuid} ELSE stored
               /\ created_log' = Send(created_log, CreatedReceivers, conf)
               /\ sent' = Append(sent, conf)
               /\ produced' = [produced EXCEPT ![uuid] = Some(saved)]
  /\ lst_pc' = "recv"
  /\ lst_cur' = None
  /\ UNCHANGED <<ctx_alive, create_log, lst_pos, caller, outer, inner, cursor,
                 done, result, data_id, seen>>

\* listener, lines 38-51: persist the metadata and broadcast the outcome
ListenerSave ==
  /\ lst_pc = "save"
  /\ LET uuid == Unwrap(Unwrap(lst_cur).id)
     IN  \E saved \in {"Ok", "StorageErr"} :
           LET conf == IF saved = "Ok" THEN Created(uuid)
                       ELSE Failed(saved, Some(uuid))
           IN  /\ stored' = IF saved = "Ok" THEN stored \cup {uuid} ELSE stored
               /\ created_log' = Send(created_log, CreatedReceivers, conf)
               /\ sent' = Append(sent, conf)
               /\ produced' = [produced EXCEPT ![uuid] = Some(saved)]
  /\ lst_pc' = "recv"
  /\ lst_cur' = None
  /\ UNCHANGED <<ctx_alive, create_log, lst_pos, caller, outer, inner, cursor,
                 done, result, data_id, seen>>

AddStartLate(c) ==
  /\ ctx_alive
  /\ caller[c] = "idle"
  /\ caller' = [caller EXCEPT ![c] = "blocked"]
  /\ cursor' = [cursor EXCEPT ![c] = Len(created_log) + 1]
  /\ outer' = [outer EXCEPT ![c] = "start"]
  /\ UNCHANGED <<ctx_alive, create_log, created_log, lst_pc, lst_pos, lst_cur,
                 stored, inner, done, result, data_id, produced, seen, sent>>

\* add(), lines 70-75: clone tx, subscribe rx, spawn the task, then block
AddStart(c) ==
  /\ ctx_alive
  /\ caller[c] = "idle"
  /\ caller' = [caller EXCEPT ![c] = "blocked"]
  /\ cursor' = [cursor EXCEPT ![c] = Len(created_log)]
  /\ outer' = [outer EXCEPT ![c] = "start"]
  /\ UNCHANGED <<ctx_alive, create_log, created_log, lst_pc, lst_pos, lst_cur,
                 stored, inner, done, result, data_id, produced, seen, sent>>

OuterStartPublishes(c) ==
  /\ outer[c] = "start"
  /\ \E data \in {"DataErr", "NoId", "WithId"} :
       IF data = "DataErr"
       THEN /\ done' = [done EXCEPT ![c] = Append(@, ErrOf("DataErr"))]
            /\ outer' = [outer EXCEPT ![c] = "done"]
            /\ inner' = [inner EXCEPT ![c] = "ready"]
            /\ data_id' = [data_id EXCEPT ![c] = Some(Guid(c))]
       ELSE /\ data_id' = [data_id EXCEPT ![c] =
                             IF data = "NoId" THEN None ELSE Some(Guid(c))]
            /\ inner' = [inner EXCEPT ![c] = "ready"]
            /\ outer' = [outer EXCEPT ![c] = "waiting"]
            /\ UNCHANGED done
  /\ UNCHANGED <<ctx_alive, create_log, created_log, lst_pc, lst_pos, lst_cur,
                 stored, caller, cursor, result, produced, seen, sent>>

\* task of line 75, lines 76-121: extract the metadata, spawn the publisher
OuterStart(c) ==
  /\ outer[c] = "start"
  /\ \E data \in {"DataErr", "NoId", "WithId"} :
       IF data = "DataErr"
       THEN /\ done' = [done EXCEPT ![c] = Append(@, ErrOf("DataErr"))]
            /\ outer' = [outer EXCEPT ![c] = "done"]
            /\ UNCHANGED <<inner, data_id>>
       ELSE /\ data_id' = [data_id EXCEPT ![c] =
                             IF data = "NoId" THEN None ELSE Some(Guid(c))]
            /\ inner' = [inner EXCEPT ![c] = "ready"]
            /\ outer' = [outer EXCEPT ![c] = "waiting"]
            /\ UNCHANGED done
  /\ UNCHANGED <<ctx_alive, create_log, created_log, lst_pc, lst_pos, lst_cur,
                 stored, caller, cursor, result, produced, seen, sent>>

\* task of line 113, lines 114-120: publish the creation request
InnerSend(c) ==
  /\ inner[c] = "ready"
  /\ inner' = [inner EXCEPT ![c] = "done"]
  /\ IF CreateReceivers = 0
     THEN /\ done' = [done EXCEPT ![c] =
                        IF caller[c] = "returned" THEN @
                        ELSE Append(@, ErrOf("CantAdd"))]
          /\ UNCHANGED create_log
     ELSE /\ create_log' = Append(create_log, [id |-> data_id[c], from |-> c])
          /\ UNCHANGED done
  /\ UNCHANGED <<ctx_alive, created_log, lst_pc, lst_pos, lst_cur, stored,
                 caller, outer, cursor, result, data_id, produced, seen, sent>>

MatchesAny(val, uuid) == val.id # None

\* lines 124-142: does the confirmation val resolve the call for uuid
Matches(val, uuid) == val.id # None /\ Unwrap(val.id) = uuid

\* task of line 75, lines 123-143: one turn of the confirmation loop
OuterRecv(c) ==
  /\ outer[c] = "waiting"
  /\ LET val == Recv(created_log, cursor[c], CreatedClosed)
     IN  /\ val.kind # "Pending"
         /\ IF val.kind # "Value"
            THEN /\ outer' = [outer EXCEPT ![c] = "done"]
                 /\ UNCHANGED <<cursor, done, seen>>
            ELSE /\ cursor' = [cursor EXCEPT ![c] = @ + 1]
                 /\ seen' = [seen EXCEPT ![c] = Append(@, val.val)]
                 /\ IF Matches(val.val, Guid(c))
                    THEN /\ done' = [done EXCEPT ![c] =
                                       IF caller[c] = "returned" THEN @
                                       ELSE Append(@, IF val.val.ok
                                                      THEN OkId(Guid(c))
                                                      ELSE ErrOf(val.val.err))]
                         /\ outer' = [outer EXCEPT ![c] = "done"]
                    ELSE UNCHANGED <<done, outer>>
  /\ UNCHANGED <<ctx_alive, create_log, created_log, lst_pc, lst_pos, lst_cur,
                 stored, caller, inner, result, data_id, produced, sent>>

\* every clone of done_tx is dropped: both tasks have ended
DoneSendersGone(c) == outer[c] = "done" /\ inner[c] # "ready"

\* add(), lines 146-150: done_rx.recv() returns
AddReturn(c) ==
  /\ caller[c] = "blocked"
  /\ \/ /\ done[c] # <<>>
        /\ result' = [result EXCEPT ![c] = Some(Head(done[c]))]
        /\ done' = [done EXCEPT ![c] = Tail(@)]
     \/ /\ done[c] = <<>>
        /\ DoneSendersGone(c)
        /\ result' = [result EXCEPT ![c] = Some(ErrOf("CantAdd"))]
        /\ UNCHANGED done
  /\ caller' = [caller EXCEPT ![c] = "returned"]
  /\ UNCHANGED <<ctx_alive, create_log, created_log, lst_pc, lst_pos, lst_cur,
                 stored, outer, inner, cursor, data_id, produced, seen, sent>>

\* the scheduler is shut down: the Context is dropped, which no add() that
\* still borrows it allows
DropContext ==
  /\ ctx_alive
  /\ \A c \in Calls : caller[c] # "blocked"
  /\ ctx_alive' = FALSE
  /\ UNCHANGED <<create_log, created_log, lst_pc, lst_pos, lst_cur, stored,
                 caller, outer, inner, cursor, done, result, data_id, produced,
                 seen, sent>>

(* -------------------------- specifications ----------------------------- *)
vars == <<jobVars, regVars>>

\* the evaluation of one job by the run-loop
InitTick == JobInit /\ RegInit
NextTick ==
  \/ Tick /\ UNCHANGED regVars
  \/ PoisonLock /\ UNCHANGED regVars
SpecTick == InitTick /\ [][NextTick]_vars

\* the registration of NumCalls jobs
InitAdd == NewJob({}, 1) /\ RegInit
NextAdd ==
  \/ \E c \in Calls : AddStart(c) /\ UNCHANGED jobVars
  \/ \E c \in Calls : OuterStart(c) /\ UNCHANGED jobVars
  \/ \E c \in Calls : InnerSend(c) /\ UNCHANGED jobVars
  \/ \E c \in Calls : OuterRecv(c) /\ UNCHANGED jobVars
  \/ \E c \in Calls : AddReturn(c) /\ UNCHANGED jobVars
  \/ ListenerRecv /\ UNCHANGED jobVars
  \/ ListenerSave /\ UNCHANGED jobVars
  \/ DropContext /\ UNCHANGED jobVars
SpecAdd == InitAdd /\ [][NextAdd]_vars

\* the tokio runtime and the OS do not leave every runnable task idle for
\* ever: while the listener (line 64), a task of add() (lines 75, 113) or a
\* done_rx.recv() that can return (line 146) has a step to take, one of them
\* takes a step.  Each of these steps can be taken only a bounded number of
\* times, so this is as strong as fairness for every task on its own.
Fairness ==
  WF_vars(/\ \/ ListenerRecv \/ ListenerSave
             \/ \E c \in Calls : OuterStart(c) \/ OuterRecv(c) \/ InnerSend(c) \/ AddReturn(c)
          /\ UNCHANGED jobVars)
FairSpecAdd == SpecAdd /\ Fairness

(* ----------------------- claims about tick() --------------------------- *)
\* the latest step of the behaviour was a tick() that acquired the lock and
\* found last_tick set
EvaluatedAgain == locked /\ prev_tick # None

\* C1: over strictly increasing evaluations spaced closer than the minimum
\* gap of the schedule, the number of tick() calls that returned true equals
\* the number of occurrences between the priming evaluation and the latest
\* one, also when an evaluation falls exactly on an occurrence.
C1_ExactlyOnce ==
  (~poisoned /\ dense /\ last_tick # None) => Len(fired) = passed

\* the same count, for evaluations none of which falls on an occurrence
ExactlyOnceOffBoundary ==
  (~poisoned /\ dense /\ last_tick # None /\ ~on_boundary) => Len(fired) = passed

ExactlyOnceOffBoundaryWitness ==
  ~poisoned /\ dense /\ last_tick # None /\ ~on_boundary /\ Len(fired) >= 2

\* C2: no two tick() calls return true for the same candidate occurrence.
C2_AtMostOnce ==
  \A i, j \in 1 .. Len(fired) : i # j => fired[i] # fired[j]

C2_Witness == Len(fired) >= 2 /\ ret = Some(TRUE)

Every5 == Pattern(5, {0})

\* C3: with occurrences at every multiple of 5, a fresh job evaluated at
\* 0, 5, 12, 13 returns false, true, true, false.
C3_ExampleTrace ==
  (schedule = Every5 /\ locked) =>
     /\ (evals = 1 /\ clock = 0) => ret = Some(FALSE)
     /\ (evals = 2 /\ prev_tick = Some(0) /\ clock = 5) => ret = Some(TRUE)
     /\ (evals = 3 /\ prev_tick = Some(5) /\ clock = 12) => ret = Some(TRUE)
     /\ (evals = 4 /\ prev_tick = Some(12) /\ clock = 13) => ret = Some(FALSE)

\* C4: the first tick() that evaluates a job returns false and leaves
\* last_tick at the instant of that call, whatever the schedule.
C4_FirstTickFalse ==
  (locked /\ prev_tick = None) => (ret = Some(FALSE) /\ last_tick = Some(clock))

C4_Witness ==
  /\ locked /\ prev_tick = None /\ evals = 1
  /\ clock \in schedule /\ \E o \in schedule : o < clock

\* C5: a tick() that finds last_tick = prev returns true iff the earliest
\* occurrence strictly after prev exists, lies strictly before now and
\* strictly after prev.
C5_DueIff ==
  EvaluatedAgain =>
    LET prev == Unwrap(prev_tick)
        now  == clock
        candidates == {c \in schedule : prev < c /\ ~\E o \in schedule : prev < o /\ o < c}
    IN  /\ ret = Some(\E c \in candidates : c < now /\ prev < c)
        /\ candidates = {} => ret = Some(FALSE)
        /\ (\E c \in candidates : now <= c) => ret = Some(FALSE)

C5_Witness ==
  /\ EvaluatedAgain /\ ret = Some(FALSE)
  /\ clock \in schedule /\ After(schedule, Unwrap(prev_tick)) # {}
  /\ Min(After(schedule, Unwrap(prev_tick))) = clock

\* a step that is a tick() which acquires the lock
Evaluates == evals' = evals + 1 /\ locked'

\* count + 1, wrapping to zero at the maximum of the counter
Bumped(c) == IF c + 1 = CounterMax THEN 0 ELSE c + 1

\* C6: every tick(), the first one included, increases count by one (wrapping
\* to zero at the maximum).
C6_EveryTickCounts == [][Evaluates => count' = Bumped(count)]_vars

\* C6, amended: a tick() that finds last_tick set increases count by one
\* (wrapping to zero at the maximum), whatever it returns; the first tick()
\* after construction leaves count as it is.
C6_LaterTicksCount ==
  [][Evaluates => count' = IF last_tick = None THEN count ELSE Bumped(count)]_vars

C6_Witness == EvaluatedAgain /\ count = 1 /\ evals = 2 /\ ret = Some(TRUE)

\* C7: count stays within 0 .. 2^w - 2, and a tick() sets it to 0 exactly
\* when count + 1 is the maximum 2^w - 1, to count + 1 otherwise.
C7_NoOverflow ==
  /\ [](count \in 0 .. 2 ^ CounterBits - 2)
  /\ [][(Evaluates /\ last_tick # None) =>
          /\ count + 1 < 2 ^ CounterBits
          /\ (count' = 0) <=> (count + 1 = 2 ^ CounterBits - 1)
          /\ (count' # 0) => (count' = count + 1)]_vars

C7_Witness == EvaluatedAgain /\ count = 0 /\ evals = CounterMax + 1

\* C8: a tick() that acquires the lock sets last_tick to the instant of the
\* call; once set, last_tick is never absent again and never moves backwards.
C8_LastTickFollows ==
  /\ [][Evaluates => last_tick' = Some(clock')]_vars
  /\ [][last_tick # None =>
          (last_tick' # None /\ Unwrap(last_tick') >= Unwrap(last_tick))]_vars

C8_Witness ==
  /\ EvaluatedAgain /\ ret = Some(FALSE) /\ last_tick = Some(clock)
  /\ After(schedule, Unwrap(prev_tick)) = {} /\ clock > Unwrap(prev_tick)
(* ------------------ claims about the registration ---------------------- *)
\* job_data() of the job of call c succeeded with metadata without identity
NoIdentity(c) == inner[c] # "none" /\ data_id[c] = None

\* the listener received the request of call c, found no identity in it and
\* broadcast the unattributable failure (lines 29-36)
Unattributed(c) ==
  \E i \in 1 .. Len(create_log) :
    create_log[i].from = c /\ create_log[i].id = None /\ i <= lst_pos

\* C9: an add() for a job whose metadata has no identity never returns
\* success, and once the listener has broadcast the unattributable failure
\* for its request it returns the CantAdd error to its caller.
C9_NoIdentityYieldsCantAdd ==
  \A c \in Calls :
    /\ [](NoIdentity(c) => (result[c] = None \/ ~Unwrap(result[c]).ok))
    /\ Unattributed(c) ~> (result[c] = Some(ErrOf("CantAdd")))

\* the latest confirmation call c received, in a step in which it received one
Received(c) == Len(seen'[c]) = Len(seen[c]) + 1
Latest(c) == seen'[c][Len(seen'[c])]

\* C10: an add() returns the identity only if the listener broadcast success
\* for its own identity, and a storage error only if the listener broadcast
\* that failure for its own identity; receiving a confirmation for another
\* identity leaves it waiting, unresolved.
C10_OwnOutcomeOnly ==
  /\ [](\A c \in Calls :
          result[c] # None =>
            /\ Unwrap(result[c]).ok =>
                 /\ Unwrap(result[c]).id = Some(Guid(c))
                 /\ produced[Guid(c)] = Some("Ok")
            /\ Unwrap(result[c]).err = "StorageErr" =>
                 produced[Guid(c)] = Some("StorageErr"))
  /\ [][\A c \in Calls :
          (Received(c) /\ Latest(c).id # Some(Guid(c))) =>
             /\ outer'[c] = "waiting"
             /\ done'[c] = done[c]
             /\ result'[c] = result[c]]_vars

C10_Witness ==
  \E c, d \in Calls :
    /\ c # d
    /\ result[c] = Some(OkId(Guid(c)))
    /\ result[d] = Some(ErrOf("StorageErr"))
    /\ \E i \in 1 .. Len(seen[d]) : seen[d][i] = Created(Guid(c))
    /\ \E i \in 1 .. Len(seen[c]) : seen[c][i] = Created(Guid(c))
\* call c received the confirmation val
Saw(c, val) == \E i \in 1 .. Len(seen[c]) : seen[c][i] = val

C12_AddReturns ==
  \A c \in Calls :
    (caller[c] = "blocked") ~>
       (caller[c] = "returned" \/ lst_pc = "exited" \/ NoIdentity(c))

C12_Witness ==
  \E c \in Calls :
    /\ result[c] = Some(OkId(Guid(c)))
    /\ lst_pc # "exited"
    /\ Saw(c, Created(Guid(c)))
(* -------------------- further claims about tick() ---------------------- *)
\* the occurrences strictly between the evaluation a tick() step starts from
\* and the instant of that step
Crossed == {o \in schedule : Unwrap(last_tick) < o /\ o < clock'}

\* C13: a tick() with several occurrences between the previous evaluation
\* and now returns true once, for the earliest of them, and a candidate for
\* which a tick() returns true is always strictly after the previous
\* evaluation: what elapsed before an evaluation is never signalled later.
C13_NoBackfill ==
  [][(Evaluates /\ last_tick # None) =>
       /\ Len(fired') <= Len(fired) + 1
       /\ (Cardinality(Crossed) >= 2) =>
            /\ ret' = Some(TRUE)
            /\ fired' = Append(fired, Min(Crossed))
       /\ (ret' = Some(TRUE)) =>
            /\ fired' = Append(fired, fired'[Len(fired')])
            /\ fired'[Len(fired')] > Unwrap(last_tick)
            /\ \A i \in 1 .. Len(fired) : fired[i] < Unwrap(last_tick)]_vars

\* some occurrence between the latest signalled candidate and the evaluation
\* that signalled it stayed unsignalled at the next evaluation
C13_Witness ==
  /\ EvaluatedAgain /\ ret = Some(FALSE) /\ fired # <<>>
  /\ \E o \in schedule :
       /\ fired[Len(fired)] < o /\ o < Unwrap(prev_tick)
       /\ Len(fired) = 1 /\ evals = 3
       /\ passed >= 2

\* C15: a tick() on a poisoned lock returns false and leaves last_tick and
\* count as they are.
C15_PoisonedTick ==
  [][(poisoned /\ evals' = evals + 1) =>
       /\ ret' = Some(FALSE)
       /\ ~locked'
       /\ last_tick' = last_tick
       /\ count' = count]_vars

C15_Witness ==
  /\ poisoned /\ ~locked /\ ret = Some(FALSE)
  /\ last_tick # None /\ count > 0 /\ prev_tick = last_tick
  /\ After(schedule, Unwrap(last_tick)) # {}

\* C20: no step of tick() changes the identity or the schedule of the job.
C20_TickFrame == [][job_id' = job_id /\ schedule' = schedule]_vars

C20_Witness ==
  /\ EvaluatedAgain /\ count > 0 /\ ret = Some(TRUE)
  /\ job_id \in JobIds /\ schedule \in Schedules
(* --------------- further claims about the registration ----------------- *)
\* job_data() of the job of call c failed and the error went to done_tx
\* (lines 79-85)
DataFailed(c) ==
  \/ result[c] = Some(ErrOf("DataErr"))
  \/ \E i \in 1 .. Len(done[c]) : done[c][i] = ErrOf("DataErr")

\* C14: an add() whose job_data() fails hands that error to its caller
\* through done_tx and stops: no creation request is published for it, the
\* listener handles nothing for it and Storage does not get its identity.
C14_DataErrorStaysLocal ==
  \A c \in Calls :
    DataFailed(c) =>
      /\ outer[c] = "done" /\ inner[c] = "none"
      /\ \A i \in 1 .. Len(create_log) : create_log[i].from # c
      /\ \A i \in 1 .. Len(sent) : sent[i].id # Some(Guid(c))
      /\ produced[Guid(c)] = None
      /\ Guid(c) \notin stored
      /\ seen[c] = <<>>
      /\ caller[c] = "blocked" => done[c] = <<ErrOf("DataErr")>>
      /\ caller[c] = "returned" => result[c] = Some(ErrOf("DataErr"))

C14_Witness ==
  \E c, d \in Calls :
    /\ DataFailed(c) /\ result[c] = Some(ErrOf("DataErr"))
    /\ result[d] = Some(OkId(Guid(d))) /\ stored = {Guid(d)}

\* C16: the listener leaves its loop only when the creation-request channel
\* is closed.
C16_ExitsOnlyWhenClosed == (lst_pc = "exited") => CreateClosed

\* the number of requests the listener has finished handling
Handled == IF lst_pc = "save" THEN lst_pos - 1 ELSE lst_pos

RECURSIVE IsSubSeq(_, _)
IsSubSeq(a, b) ==
  IF a = <<>> THEN TRUE
  ELSE IF b = <<>> THEN FALSE
  ELSE IF Head(a) = Head(b) THEN IsSubSeq(Tail(a), Tail(b))
  ELSE IsSubSeq(a, Tail(b))

\* C17: the listener broadcasts one confirmation per request it received, in
\* the order of the requests: CantAdd without identity for a request without
\* identity (Storage untouched), the storage error with the identity of the
\* request when add_or_update fails, success with that identity otherwise.
C17_OneConfirmationPerRequest ==
  /\ Len(sent) = Handled
  /\ \A i \in 1 .. Len(sent) :
       IF create_log[i].id = None
       THEN sent[i] = Failed("CantAdd", None)
       ELSE LET uuid == Unwrap(create_log[i].id)
            IN  IF uuid \in stored THEN sent[i] = Created(uuid)
                ELSE sent[i] = Failed("StorageErr", Some(uuid))
  /\ stored = {Unwrap(sent[i].id) : i \in {k \in 1 .. Len(sent) : sent[k].ok}}
  /\ IsSubSeq(created_log, sent)

C17_Witness ==
  /\ Len(sent) = 2 /\ lst_pc = "recv"
  /\ sent[1] = Failed("CantAdd", None)
  /\ ~sent[2].ok /\ sent[2].id = create_log[2].id /\ sent[2].id # None
  /\ created_log = sent

\* C18: add() returns success for an identity, and success is broadcast for
\* it, only when add_or_update has accepted the metadata of that identity.
C18_SuccessAfterPersist ==
  /\ \A i \in 1 .. Len(sent) : sent[i].ok => Unwrap(sent[i].id) \in stored
  /\ \A i \in 1 .. Len(created_log) :
       created_log[i].ok => Unwrap(created_log[i].id) \in stored
  /\ \A c \in Calls :
       /\ \A i \in 1 .. Len(done[c]) : done[c][i].ok => Guid(c) \in stored
       /\ (result[c] # None /\ Unwrap(result[c]).ok) => Guid(c) \in stored
       /\ (result[c] # None /\ produced[Guid(c)] # Some("Ok")) =>
            ~Unwrap(result[c]).ok

C18_Witness ==
  \E c, d \in Calls :
    /\ result[c] = Some(OkId(Guid(c))) /\ Guid(c) \in stored
    /\ produced[Guid(d)] = Some("StorageErr") /\ Guid(d) \notin stored
    /\ result[d] # None /\ ~Unwrap(result[d]).ok

\* the number of confirmations job_created_tx had taken when call c subscribed
SubscribedAt(c) == cursor[c] - Len(seen[c])

\* C19: an add() subscribes to job_created_tx before its request is
\* published: a call whose request is on the creation channel has
\* subscribed, and every confirmation carrying its identity was sent after
\* that subscription, so it lies ahead of the receiver or was received.
C19_SubscribedBeforePublish ==
  \A c \in Calls :
    /\ (\E i \in 1 .. Len(create_log) : create_log[i].from = c) =>
         caller[c] # "idle"
    /\ \A i \in 1 .. Len(created_log) :
         created_log[i].id = Some(Guid(c)) =>
           /\ caller[c] # "idle"
           /\ SubscribedAt(c) < i
           /\ i <= cursor[c] => Saw(c, created_log[i])

C19_Witness ==
  \E c \in Calls :
    /\ SubscribedAt(c) >= 1
    /\ Saw(c, Created(Guid(c)))
    /\ result[c] = Some(OkId(Guid(c)))
====
